---- MODULE Spec2Model ----
(***************************************************************************)
(* Live duplex voice session engine of Emotional_AI.                        *)
(*                                                                         *)
(* Two views drive a session: LivePracticeView (conversational mode) and   *)
(* ConversationGuardianView (silent-monitor mode).  App (part_003, lines   *)
(* 93-94) mounts one view at a time, so `mode` is chosen once per run      *)
(* and the two views share the variables that carry the same names         *)
(* in both components (status, isConnected, sessionRef,                    *)
(* inputAudioContextRef).                                                  *)
(*                                                                         *)
(* Every connect attempt gets a session number 1..MaxSessions; what the    *)
(* closures of that attempt capture (its audio contexts, its microphone    *)
(* stream, its transport promise) is indexed by that number, what the      *)
(* component keeps in refs and React state is a plain variable.            *)
(*                                                                         *)
(* Time is the output device clock in whole scheduling units.              *)
(***************************************************************************)
EXTENDS Integers, Sequences, FiniteSets, TLC

\* ---------------------------------------------------------------- bounds
MaxSessions == 2
MaxTime == 3
MaxDur == 2
MaxConv == 3
MaxText == 1
MaxStops == 2
MaxCalls == 2
MaxSources == 2
MaxFrags == 3
MaxBuf == 2

Sessions == 1..MaxSessions
NoSession == 0

\* ------------------------------------------------------------- constants
\* if (currentTranscript.length > 2)
HandoffMinLength == 2
Max(a, b) == IF a >= b THEN a ELSE b

\* ---------------------------------------------------------- status texts
StDisconnected == "Disconnected"
StRequestMic == "Requesting Microphone..."
StConnectingLive == "Connecting to Gemini Live..."
StConnected == "Connected"
StConnectionEnded == "Connection Ended (Check Network). You can View Analysis."
StAnalyzing == "Analyzing Session..."
StSessionComplete == "Session Complete"
StSessionCompleteError == "Session Complete (Error)"
StReady == "Ready to Monitor"
StConnectingGuardian == "Connecting to Guardian..."
StMonitoring == "Monitoring..."
StDropped == "Connection Dropped. Transcript Saved."
StStopped == "Stopped"

\* err.message of a transport error: absent, mentioning "Network", mentioning
\* "403", or any other text.
ErrCauses == {"none", "Network", "403", "quota"}

\* LivePracticeView onError: msg = err.message || "Connection Failed", rewritten
\* when it includes "Network" or "403"; status = "Error: " + msg
LiveErrorStatus(cause) ==
    CASE cause = "none" -> "Error: Connection Failed"
      [] cause = "Network" -> "Error: Network Error: Check internet connection."
      [] cause = "403" -> "Error: Access Denied: Check API Key."
      [] OTHER -> "Error: quota"

\* ConversationGuardianView onError
GuardianErrorStatus(cause) ==
    CASE cause = "none" -> "Error: Connection failed"
      [] cause = "403" -> "Error: Access Denied. Check API Key."
      [] cause = "Network" -> "Error: Network"
      [] OTHER -> "Error: quota"

\* connect catch: "Error: " + (e.message || "Unknown error occurred")
StMicError == "Error: Permission denied"
\* sessionPromise.catch: "Error: " + (e.message || "Failed to establish connection.")
StConnectError == "Error: Failed to establish connection."

ErrorStatuses ==
    {LiveErrorStatus(c) : c \in ErrCauses} \cup {GuardianErrorStatus(c) : c \in ErrCauses}
        \cup {StMicError, StConnectError}

\* status.includes("Error")
StatusIncludesError(s) == s \in ErrorStatuses \cup {StSessionCompleteError}
\* status.includes("Connection Ended")
StatusIncludesEnded(s) == s = StConnectionEnded

\* ------------------------------------------------------------------ state
VARIABLES
    mode,                  \* which view is mounted
    codec,                 \* one audio sample on its way through the PCM codec
    video,                 \* the run of generateSocialVideo
    status, isConnected,   \* React state of the mounted view
    nSessions,             \* connect attempts made so far
    tr,                    \* per session: state of the transport session
    inCtx, outCtx,         \* per session: state of its audio contexts
    outClock,              \* per session: currentTime of its output context
    mic,                   \* per session: state of its microphone stream
    pipeline,              \* per session: scriptProcessor wired by onOpen
    sessionRef, inputAudioContextRef, outputAudioContextRef,
    \* LivePracticeView
    isAiSpeaking, isMuted, isExplicitlyStopped,
    conversation, feedback, isGeneratingFeedback, feedbackError,
    frags,                 \* the text fragments that went into the conversation
                           \* (silent monitor: received since the last turn-complete)
    nextStartTime, sources, endedPending, pending,
    discIn, discOut,       \* handleDisconnect calls suspended at their 1st, 2nd await
    generating,            \* generatePracticeFeedback calls in flight
    \* ConversationGuardianView and connectGuardian
    isMonitoring, guardianSignal, transcript,
    currentInputTrans, currentOutputTrans,
    nextCallId,
    \* observation of what the handlers did
    closeCalls, ctxCloseCalls, handoffs, sched, acks, toolLog,
    last                   \* the handler that ran last: "stop" (a stop call), the
                           \* outcome of a capture tick, or "other"; continuations
                           \* of a stop call and the device clock leave it alone

sessVars == <<nSessions, tr, inCtx, outCtx, outClock, mic, pipeline>>
refVars == <<sessionRef, inputAudioContextRef, outputAudioContextRef>>
convVars == <<conversation, feedback, isGeneratingFeedback, feedbackError, frags>>
playVars == <<nextStartTime, sources, endedPending, pending>>
callVars == <<discIn, discOut, generating>>
liveVars == <<isAiSpeaking, isMuted, isExplicitlyStopped, convVars, playVars, callVars>>
guardVars == <<isMonitoring, guardianSignal, transcript, currentInputTrans,
               currentOutputTrans, nextCallId>>
obsVars == <<closeCalls, ctxCloseCalls, handoffs, sched, acks, toolLog>>
programVars == <<mode, status, isConnected, sessVars, refVars, liveVars, guardVars,
                 obsVars, last>>
vars == <<programVars, codec, video>>

NoPending == [sess |-> NoSession, ctx |-> NoSession, dur |-> 0, intr |-> FALSE, now |-> 0]
\* sched.played: the greatest start time among the buffers of the session that
\* played to their end (-1: none yet).
NoSched == [prevEnd |-> -1, start |-> -1, end |-> -1, now |-> -1, played |-> -1]

InitProgram ==
    /\ mode \in {"conversational", "silent"}
    /\ status = IF mode = "conversational" THEN StDisconnected ELSE StReady
    /\ isConnected = FALSE
    /\ nSessions = 0
    /\ tr = [s \in Sessions |-> "none"]
    /\ inCtx = [s \in Sessions |-> "none"]
    /\ outCtx = [s \in Sessions |-> "none"]
    /\ outClock = [s \in Sessions |-> 0]
    /\ mic = [s \in Sessions |-> "none"]
    /\ pipeline = [s \in Sessions |-> FALSE]
    /\ sessionRef = NoSession
    /\ inputAudioContextRef = NoSession
    /\ outputAudioContextRef = NoSession
    /\ isAiSpeaking = FALSE
    /\ isMuted = FALSE
    /\ isExplicitlyStopped = FALSE
    /\ conversation = << >>
    /\ frags = << >>
    /\ feedback = "none"
    /\ isGeneratingFeedback = FALSE
    /\ feedbackError = FALSE
    /\ nextStartTime = 0
    /\ sources = {}
    /\ endedPending = {}
    /\ pending = NoPending
    /\ discIn = 0
    /\ discOut = 0
    /\ generating = 0
    /\ isMonitoring = FALSE
    /\ guardianSignal = "null"
    /\ transcript = << >>
    /\ currentInputTrans = [s \in Sessions |-> << >>]
    /\ currentOutputTrans = [s \in Sessions |-> << >>]
    /\ nextCallId = 1
    /\ closeCalls = [s \in Sessions |-> 0]
    /\ ctxCloseCalls = [s \in Sessions |-> 0]
    /\ handoffs = 0
    /\ sched = NoSched
    /\ acks = << >>
    /\ toolLog = << >>
    /\ last = "none"

\* No sample is in the codec.
NoCodec == [stage |-> "none", sample |-> 0, bytes |-> <<0, 0>>, out |-> [num |-> 0, den |-> 1]]

\* generateSocialVideo has not been called.
NoVideo == [pc |-> "idle", n |-> 0, i |-> 0, attempts |-> 0, requests |-> 0,
            current |-> FALSE, err |-> "none"]

Init == InitProgram /\ codec = NoCodec /\ video = NoVideo

\* Variant: handlers run whether or not onMessage is suspended.
IdleAlways == TRUE

\* No handler is suspended inside onMessage: macrotasks (clicks, transport
\* callbacks, capture ticks, ended events) run only then.
Idle == pending = NoPending

\* ===================================================== LivePracticeView
\* The "Start Practice" button: rendered when nothing of an earlier session is
\* on screen, enabled by the status text.
CanConnect ==
    /\ ~isConnected
    /\ Len(conversation) = 0
    /\ feedback = "none"
    /\ ~isGeneratingFeedback
    /\ ~feedbackError
    /\ (status = StDisconnected \/ StatusIncludesError(status)
            \/ StatusIncludesEnded(status))

\* connect, up to `await getUserMedia`: the resets, the two audio contexts, the
\* refs.  Nothing checks what an earlier attempt still holds.
Connect ==
    /\ mode = "conversational"
    /\ Idle
    /\ CanConnect
    /\ nSessions < MaxSessions
    /\ LET s == nSessions + 1 IN
        /\ nSessions' = s
        /\ status' = StRequestMic
        /\ feedback' = "none"
        /\ feedbackError' = FALSE
        /\ conversation' = << >>
        /\ frags' = << >>
        /\ isAiSpeaking' = FALSE
        /\ isMuted' = FALSE
        /\ isExplicitlyStopped' = FALSE
        /\ inCtx' = [inCtx EXCEPT ![s] = "running"]
        /\ outCtx' = [outCtx EXCEPT ![s] = "running"]
        /\ outClock' = [outClock EXCEPT ![s] = 0]
        /\ mic' = [mic EXCEPT ![s] = "requested"]
        /\ inputAudioContextRef' = s
        /\ outputAudioContextRef' = s
    /\ handoffs' = 0
    /\ sched' = NoSched
    /\ last' = "other"
    /\ UNCHANGED <<codec, video, mode, isConnected, tr, pipeline, sessionRef, isGeneratingFeedback,
                   playVars, callVars, guardVars, closeCalls, ctxCloseCalls, acks, toolLog>>

\* getUserMedia resolved: liveConnect is called.
MicGranted(s) ==
    /\ mode = "conversational"
    /\ Idle
    /\ mic[s] = "requested"
    /\ mic' = [mic EXCEPT ![s] = "live"]
    /\ status' = StConnectingLive
    /\ tr' = [tr EXCEPT ![s] = "connecting"]
    /\ last' = "other"
    /\ UNCHANGED <<codec, video, mode, isConnected, nSessions, inCtx, outCtx, outClock, pipeline,
                   refVars, liveVars, guardVars, obsVars>>

\* getUserMedia rejected: the catch of connect.
MicDenied(s) ==
    /\ mode = "conversational"
    /\ Idle
    /\ mic[s] = "requested"
    /\ mic' = [mic EXCEPT ![s] = "denied"]
    /\ status' = StMicError
    /\ isConnected' = FALSE
    /\ last' = "other"
    /\ UNCHANGED <<codec, video, mode, nSessions, tr, inCtx, outCtx, outClock, pipeline,
                   refVars, liveVars, guardVars, obsVars>>

\* The transport opened: the onOpen callback of connect.
OnOpen(s) ==
    /\ mode = "conversational"
    /\ Idle
    /\ tr[s] = "connecting"
    /\ tr' = [tr EXCEPT ![s] = "open"]
    /\ status' = StConnected
    /\ isConnected' = TRUE
    /\ pipeline' = [pipeline EXCEPT ![s] = TRUE]
    /\ last' = "other"
    /\ UNCHANGED <<codec, video, mode, nSessions, inCtx, outCtx, outClock, mic,
                   refVars, liveVars, guardVars, obsVars>>

\* The connect promise rejected: sessionPromise.catch.
ConnectRejected(s) ==
    /\ mode = "conversational"
    /\ Idle
    /\ tr[s] = "connecting"
    /\ tr' = [tr EXCEPT ![s] = "rejected"]
    /\ status' = StConnectError
    /\ isConnected' = FALSE
    /\ last' = "other"
    /\ UNCHANGED <<codec, video, mode, nSessions, inCtx, outCtx, outClock, mic, pipeline,
                   refVars, liveVars, guardVars, obsVars>>

\* ------------------------------------------------------ transcript (live)
Msg(role, text) == [role |-> role, text |-> text]

\* Variant: every fragment opens a new message.
UpdateStreamingTranscriptAppend(conv, role, textFragment) ==
    Append(conv, Msg(role, textFragment))

\* updateStreamingTranscript: append to the last message when it has the same
\* role, otherwise open a new message.
UpdateStreamingTranscript(conv, role, textFragment) ==
    IF Len(conv) > 0 /\ conv[Len(conv)].role = role
    THEN [conv EXCEPT ![Len(conv)] = Msg(role, conv[Len(conv)].text \o textFragment)]
    ELSE Append(conv, Msg(role, textFragment))

\* `if (text) updateStreamingTranscript(...)`: an absent or empty text is skipped.
ApplyTranscription(conv, role, text) ==
    IF text # << >> THEN UpdateStreamingTranscript(conv, role, text) ELSE conv

\* The fragment a transcription of a message contributes: none when its text is
\* absent or empty.
Fragments(role, text) == IF text # << >> THEN <<Msg(role, text)>> ELSE << >>

\* The texts of the transcription fragments fed to the transcript alone.
FragTexts == {<<"a">>, <<"b">>, <<"a", "b">>}

\* One transcription of an inbound message, taken alone: `if (text)
\* updateStreamingTranscript(role, text)`.
Transcription(role, text) ==
    /\ mode = "conversational"
    /\ Idle
    /\ Len(frags) < MaxFrags
    /\ conversation' = ApplyTranscription(conversation, role, text)
    /\ frags' = frags \o Fragments(role, text)
    /\ last' = "other"
    /\ UNCHANGED <<codec, video, mode, status, isConnected, sessVars, refVars, isAiSpeaking, isMuted,
                   isExplicitlyStopped, feedback, isGeneratingFeedback, feedbackError,
                   playVars, callVars, guardVars, obsVars>>

\* An inbound message of the conversational session: input transcription text,
\* output transcription text, duration of the inline audio (0: none), and the
\* interrupted marker.  payload tells what the base64 string of the audio holds:
\* "pcm" (16-bit samples), "odd" (an odd number of bytes), "invalid" (no base64).
LiveMsg(inT, outT, audio, intr) ==
    [inT |-> inT, outT |-> outT, audio |-> audio, intr |-> intr, payload |-> "pcm"]

\* A message whose inline audio is malformed.
BadAudioMsg(payload, intr) ==
    [inT |-> << >>, outT |-> << >>, audio |-> 1, intr |-> intr, payload |-> payload]

\* decode: atob throws on a string that is not base64.
AtobThrows(payload) == payload = "invalid"

\* decodeAudioData: new Int16Array(data.buffer) throws on an odd byte length.
Int16ArrayThrows(payload) == payload = "odd"

\* `await decodeAudioData(decode(...), ...)` raises instead of giving a buffer.
DecodeRaises(payload) == AtobThrows(payload) \/ Int16ArrayThrows(payload)

LiveMsgs ==
    {LiveMsg(<<"a">>, << >>, 0, FALSE), LiveMsg(<< >>, <<"a">>, 0, FALSE),
     LiveMsg(<< >>, << >>, 0, TRUE), LiveMsg(<< >>, << >>, 1, TRUE)}
        \cup {LiveMsg(<< >>, << >>, d, FALSE) : d \in 1..MaxDur}

ConvWithin(conv) ==
    /\ Len(conv) <= MaxConv
    /\ \A i \in 1..Len(conv) : Len(conv[i].text) <= MaxText

\* ------------------------------------------------------ playback scheduler
\* Variant: no clamp, the cursor is used as it stands.
ClampStartNone(next, now) == next

\* Variant: a clamp that lands one unit after the later of cursor and clock.
ClampStartLate(next, now) == Max(next, now) + 1

\* nextStartTimeRef.current = Math.max(nextStartTimeRef.current, ctx.currentTime)
ClampStart(next, now) == Max(next, now)

\* Variant: a cursor that is not advanced by the duration of the buffer.
AdvanceStartNone(next, dur) == next

\* nextStartTimeRef.current = nextStartTimeRef.current + audioBuffer.duration
AdvanceStart(next, dur) == next + dur

Source(ctx, start, end) == [ctx |-> ctx, start |-> start, end |-> end]

\* Variant: an interrupted branch that leaves the cursor where it is.
InterruptedKeepsCursor ==
    /\ endedPending' = endedPending \cup {src.ctx : src \in sources}
    /\ sources' = {}
    /\ nextStartTime' = nextStartTime
    /\ isAiSpeaking' = FALSE
    /\ sched' = [NoSched EXCEPT !.played = sched.played]

\* The `interrupted` branch: every source stopped and removed, cursor to zero.
\* A stopped source still fires its ended event later.
Interrupted ==
    /\ endedPending' = endedPending \cup {src.ctx : src \in sources}
    /\ sources' = {}
    /\ nextStartTime' = 0
    /\ isAiSpeaking' = FALSE
    /\ sched' = [NoSched EXCEPT !.played = sched.played]

\* onMessage of connect, up to `await decodeAudioData`: the transcriptions and the
\* clamp of the cursor; a message without audio is handled to its end.  When the
\* decoding raises, the handler ends there: nothing is scheduled and the
\* interrupted marker of the message is not looked at.
OnMessage(s, m) ==
    /\ mode = "conversational"
    /\ Idle
    /\ tr[s] = "open"
    /\ LET conv == ApplyTranscription(
                       ApplyTranscription(conversation, "user", m.inT), "model", m.outT)
       IN /\ ConvWithin(conv)
          /\ conversation' = conv
    /\ frags' = frags \o Fragments("user", m.inT) \o Fragments("model", m.outT)
    /\ IF m.audio > 0 /\ outputAudioContextRef # NoSession
       THEN /\ nextStartTime + m.audio <= MaxTime + MaxDur
            /\ Cardinality(sources) < MaxSources
            /\ nextStartTime' = ClampStart(nextStartTime, outClock[outputAudioContextRef])
            /\ pending' =
                  IF DecodeRaises(m.payload) THEN NoPending
                  ELSE [sess |-> s, ctx |-> outputAudioContextRef, dur |-> m.audio,
                        intr |-> m.intr, now |-> outClock[outputAudioContextRef]]
            /\ UNCHANGED <<isAiSpeaking, sources, endedPending, sched>>
       ELSE /\ pending' = NoPending
            /\ IF m.intr THEN Interrupted
               ELSE UNCHANGED <<isAiSpeaking, sources, endedPending, nextStartTime, sched>>
    /\ last' = "other"
    /\ UNCHANGED <<codec, video, mode, status, isConnected, sessVars, refVars, isMuted,
                   isExplicitlyStopped, feedback, isGeneratingFeedback, feedbackError,
                   callVars, guardVars, closeCalls, ctxCloseCalls, handoffs, acks, toolLog>>

\* onMessage after `await decodeAudioData`: the buffer is scheduled at the cursor,
\* the cursor advanced, the source registered; then the interrupted branch.
\* A buffer scheduled before the device time starts playing at once.
OnMessageResume ==
    /\ pending # NoPending
    /\ LET ctx == pending.ctx
           start == nextStartTime
           now == outClock[ctx]
           clampNow == pending.now
           next == AdvanceStart(nextStartTime, pending.dur)
           src == Source(ctx, start, Max(start, now) + pending.dur)
       IN IF pending.intr
          THEN /\ endedPending' = endedPending \cup {x.ctx : x \in sources \cup {src}}
               /\ sources' = {}
               /\ nextStartTime' = 0
               /\ isAiSpeaking' = FALSE
               /\ sched' = [NoSched EXCEPT !.played = sched.played]
          ELSE /\ isAiSpeaking' = TRUE
               /\ nextStartTime' = next
               /\ sources' = sources \cup {src}
               /\ sched' = [prevEnd |-> sched.end, start |-> start,
                            end |-> start + pending.dur, now |-> clampNow,
                            played |-> sched.played]
               /\ UNCHANGED endedPending
    /\ pending' = NoPending
    /\ last' = "other"
    /\ UNCHANGED <<codec, video, mode, status, isConnected, sessVars, refVars, isMuted,
                   isExplicitlyStopped, convVars, callVars, guardVars, closeCalls, ctxCloseCalls,
                   handoffs, acks, toolLog>>

\* The output device clock of a running context advances on the audio thread,
\* also while onMessage is suspended.
ClockAdvance(c) ==
    /\ outCtx[c] = "running"
    /\ outClock[c] < MaxTime
    /\ outClock' = [outClock EXCEPT ![c] = @ + 1]
    /\ UNCHANGED <<codec, video, last, mode, status, isConnected, nSessions, tr, inCtx, outCtx, mic, pipeline,
                   refVars, liveVars, guardVars, obsVars>>

\* The `ended` listener of a source that played to its end.
SourceEnded(src) ==
    /\ Idle
    /\ src \in sources
    /\ outCtx[src.ctx] = "running"
    /\ outClock[src.ctx] >= src.end
    /\ sources' = sources \ {src}
    /\ isAiSpeaking' =
          IF sources' = {} /\ outClock[src.ctx] >= nextStartTime THEN FALSE
          ELSE isAiSpeaking
    /\ sched' = [sched EXCEPT !.played = Max(@, src.start)]
    /\ last' = "other"
    /\ UNCHANGED <<codec, video, mode, status, isConnected, sessVars, refVars, isMuted,
                   isExplicitlyStopped, convVars, nextStartTime, endedPending, pending,
                   callVars, guardVars, closeCalls, ctxCloseCalls, handoffs, acks, toolLog>>

\* The `ended` listener of a source the interrupted branch stopped.
StoppedSourceEnded(c) ==
    /\ Idle
    /\ c \in endedPending
    /\ endedPending' = endedPending \ {c}
    /\ isAiSpeaking' =
          IF sources = {} /\ outClock[c] >= nextStartTime THEN FALSE ELSE isAiSpeaking
    /\ last' = "other"
    /\ UNCHANGED <<codec, video, mode, status, isConnected, sessVars, refVars, isMuted,
                   isExplicitlyStopped, convVars, nextStartTime, sources, pending,
                   callVars, guardVars, obsVars>>

\* The 200 ms poll of the speaking state (effect on isConnected, isAiSpeaking).
PollSpeaking ==
    /\ mode = "conversational"
    /\ Idle
    /\ isConnected
    /\ isAiSpeaking
    /\ outputAudioContextRef # NoSession
    /\ outClock[outputAudioContextRef] >= nextStartTime
    /\ sources = {}
    /\ isAiSpeaking' = FALSE
    /\ last' = "other"
    /\ UNCHANGED <<codec, video, mode, status, isConnected, sessVars, refVars, isMuted,
                   isExplicitlyStopped, convVars, playVars, callVars, guardVars, obsVars>>

\* ------------------------------------------------------------ capture gate
\* toggleMute (the button is rendered while isConnected)
ToggleMute ==
    /\ mode = "conversational"
    /\ Idle
    /\ isConnected
    /\ isMuted' = ~isMuted
    /\ last' = "other"
    /\ UNCHANGED <<codec, video, mode, status, isConnected, sessVars, refVars, isAiSpeaking,
                   isExplicitlyStopped, convVars, playVars, callVars, guardVars, obsVars>>

\* Variant: a gate that also drops the frame when the cursor equals the clock.
HalfDuplexBlockedAtClock ==
    /\ outputAudioContextRef # NoSession
    /\ nextStartTime >= outClock[outputAudioContextRef]

\* The half-duplex gate of onaudioprocess: the frame is dropped while the cursor
\* is ahead of the output clock.
HalfDuplexBlocked ==
    /\ outputAudioContextRef # NoSession
    /\ nextStartTime > outClock[outputAudioContextRef]

\* Variant: a capture tick that does not look at the mute flag.
TickOutcomeNoMute(s) ==
    IF HalfDuplexBlocked THEN "gated"
    ELSE IF tr[s] = "open" THEN "sent"
    ELSE "sendFailed"

\* What one capture tick does: "muted" and "gated" drop the frame, otherwise it
\* is handed to the session ("sent"), which fails when the session is not open
\* ("sendFailed", caught and logged).
TickOutcome(s) ==
    IF isMuted THEN "muted"
    ELSE IF HalfDuplexBlocked THEN "gated"
    ELSE IF tr[s] = "open" THEN "sent"
    ELSE "sendFailed"

\* scriptProcessor.onaudioprocess of session s.  The processor is wired by onOpen
\* and fires while its input context runs; nothing ever unwires it.  The send runs
\* in the continuation of the (already resolved) session promise of s, which also
\* stores the session in sessionRef.
CaptureTick(s) ==
    /\ mode = "conversational"
    /\ Idle
    /\ pipeline[s]
    /\ inCtx[s] = "running"
    /\ last' = TickOutcome(s)
    /\ sessionRef' = IF TickOutcome(s) \in {"sent", "sendFailed"} THEN s ELSE sessionRef
    /\ UNCHANGED <<codec, video, mode, status, isConnected, sessVars, inputAudioContextRef,
                   outputAudioContextRef, liveVars, guardVars, closeCalls, ctxCloseCalls,
                   handoffs, sched, acks, toolLog>>

\* ------------------------------------------------- close, error, disconnect
\* The status the onClose callback of connect sets.
LiveCloseStatus(explicit) == IF explicit THEN StDisconnected ELSE StConnectionEnded

\* Variant: an onClose that also clears the conversation.
OnCloseClearing(s) ==
    /\ mode = "conversational"
    /\ Idle
    /\ tr[s] \in {"open", "errored", "closing"}
    /\ tr' = [tr EXCEPT ![s] = "closed"]
    /\ isAiSpeaking' = FALSE
    /\ isConnected' = FALSE
    /\ status' = LiveCloseStatus(isExplicitlyStopped)
    /\ conversation' = << >>
    /\ frags' = << >>
    /\ last' = "other"
    /\ UNCHANGED <<codec, video, mode, nSessions, inCtx, outCtx, outClock, mic, pipeline, refVars,
                   isMuted, isExplicitlyStopped, feedback, isGeneratingFeedback,
                   feedbackError, playVars, callVars, guardVars, obsVars>>

\* onClose of connect
OnClose(s) ==
    /\ mode = "conversational"
    /\ Idle
    /\ tr[s] \in {"open", "errored", "closing"}
    /\ tr' = [tr EXCEPT ![s] = "closed"]
    /\ isAiSpeaking' = FALSE
    /\ isConnected' = FALSE
    /\ status' = LiveCloseStatus(isExplicitlyStopped)
    /\ last' = "other"
    /\ UNCHANGED <<codec, video, mode, nSessions, inCtx, outCtx, outClock, mic, pipeline, refVars,
                   isMuted, isExplicitlyStopped, convVars, playVars, callVars, guardVars, obsVars>>

\* onError of connect
OnError(s, cause) ==
    /\ mode = "conversational"
    /\ Idle
    /\ tr[s] \in {"connecting", "open"}
    /\ tr' = [tr EXCEPT ![s] = "errored"]
    /\ status' = LiveErrorStatus(cause)
    /\ isConnected' = FALSE
    /\ last' = "other"
    /\ UNCHANGED <<codec, video, mode, nSessions, inCtx, outCtx, outClock, mic, pipeline, refVars,
                   liveVars, guardVars, obsVars>>

\* session.close(): an open session starts closing, its onClose follows; closing
\* any other session changes nothing.
CloseTransport(t, s) ==
    IF s # NoSession /\ t[s] = "open" THEN [t EXCEPT ![s] = "closing"] ELSE t

\* ctx.close() on the context a ref holds (the ref keeps the closed context).
CloseCtx(c, r) == IF r # NoSession THEN [c EXCEPT ![r] = "closed"] ELSE c

Count(f, r) == IF r # NoSession THEN [f EXCEPT ![r] = @ + 1] ELSE f

\* Variant: a hand-off of every non-empty transcript.
HandsOffNonEmpty(conv) == Len(conv) > 0

\* `if (currentTranscript.length > 2)`: the transcript goes to the feedback
\* generation.
HandsOff(conv) == Len(conv) > HandoffMinLength

\* "End Session" is rendered while isConnected, "Analyze Saved Conversation" while
\* a conversation is on screen without feedback; both call handleDisconnect.
CanDisconnect ==
    \/ isConnected
    \/ /\ ~isConnected
       /\ Len(conversation) > 0
       /\ feedback = "none"
       /\ ~isGeneratingFeedback

\* handleDisconnect, up to its first await (`await inputAudioContextRef.current
\* .close()`): the flag, the transport close, the close of the input context.
\* The view still shows the connected controls until the call finishes.
HandleDisconnect ==
    /\ mode = "conversational"
    /\ Idle
    /\ CanDisconnect
    /\ inputAudioContextRef # NoSession
    /\ ctxCloseCalls[inputAudioContextRef] < MaxStops
    /\ isExplicitlyStopped' = TRUE
    /\ tr' = CloseTransport(tr, sessionRef)
    /\ closeCalls' = Count(closeCalls, sessionRef)
    /\ sessionRef' = NoSession
    /\ inCtx' = CloseCtx(inCtx, inputAudioContextRef)
    /\ ctxCloseCalls' = Count(ctxCloseCalls, inputAudioContextRef)
    /\ discIn' = discIn + 1
    /\ handoffs' = IF last = "stop" THEN handoffs ELSE 0
    /\ last' = "stop"
    /\ UNCHANGED <<codec, video, mode, status, isConnected, nSessions, outCtx, outClock, mic, pipeline,
                   inputAudioContextRef, outputAudioContextRef, isAiSpeaking, isMuted,
                   convVars, playVars, guardVars, sched, acks, toolLog, discOut, generating>>

\* handleDisconnect resumed after the close of the input context: the close of
\* the output context, awaited in turn.
DisconnectCloseOutput ==
    /\ mode = "conversational"
    /\ Idle
    /\ discIn > 0
    /\ discIn' = discIn - 1
    /\ discOut' = discOut + 1
    /\ outCtx' = CloseCtx(outCtx, outputAudioContextRef)
    /\ UNCHANGED <<codec, video, mode, status, isConnected, nSessions, tr, inCtx, outClock, mic,
                   pipeline, refVars, isAiSpeaking, isMuted, isExplicitlyStopped,
                   convVars, playVars, generating, guardVars, obsVars, last>>

\* handleDisconnect resumed after the close of the output context, up to `await
\* generatePracticeFeedback`: the transcript is read from conversationRef and
\* either handed off or the session shown as disconnected.
DisconnectFinish ==
    /\ mode = "conversational"
    /\ Idle
    /\ discOut > 0
    /\ discOut' = discOut - 1
    /\ isConnected' = FALSE
    /\ isAiSpeaking' = FALSE
    /\ IF HandsOff(conversation)
       THEN /\ isGeneratingFeedback' = TRUE
            /\ status' = StAnalyzing
            /\ handoffs' = handoffs + 1
            /\ generating' = generating + 1
       ELSE /\ status' = StDisconnected
            /\ UNCHANGED <<isGeneratingFeedback, handoffs, generating>>
    /\ UNCHANGED <<codec, video, mode, sessVars, refVars, isMuted, isExplicitlyStopped, conversation, frags,
                   feedback, feedbackError, playVars, guardVars, closeCalls,
                   ctxCloseCalls, sched, acks, toolLog, discIn, last>>

\* generatePracticeFeedback resolved: the rest of the try and the finally.
FeedbackResolved ==
    /\ mode = "conversational"
    /\ Idle
    /\ generating > 0
    /\ generating' = generating - 1
    /\ feedback' = "some"
    /\ status' = StSessionComplete
    /\ isGeneratingFeedback' = FALSE
    /\ UNCHANGED <<codec, video, last, mode, isConnected, sessVars, refVars, isAiSpeaking, isMuted,
                   isExplicitlyStopped, conversation, frags, feedbackError, playVars, discIn, discOut, guardVars,
                   obsVars>>

\* generatePracticeFeedback rejected: the catch and the finally.
FeedbackRejected ==
    /\ mode = "conversational"
    /\ Idle
    /\ generating > 0
    /\ generating' = generating - 1
    /\ feedbackError' = TRUE
    /\ status' = StSessionCompleteError
    /\ isGeneratingFeedback' = FALSE
    /\ UNCHANGED <<codec, video, last, mode, isConnected, sessVars, refVars, isAiSpeaking, isMuted,
                   isExplicitlyStopped, conversation, frags, feedback, playVars, discIn, discOut, guardVars,
                   obsVars>>

\* resetSession ("Return to Menu" / "Start New Session" of the feedback card)
ResetSession ==
    /\ mode = "conversational"
    /\ Idle
    /\ ~isGeneratingFeedback
    /\ feedback # "none" \/ feedbackError
    /\ conversation' = << >>
    /\ frags' = << >>
    /\ feedback' = "none"
    /\ feedbackError' = FALSE
    /\ status' = StDisconnected
    /\ last' = "other"
    /\ UNCHANGED <<codec, video, mode, isConnected, sessVars, refVars, isAiSpeaking, isMuted,
                   isExplicitlyStopped, isGeneratingFeedback, playVars, callVars, guardVars,
                   obsVars>>

\* ============================= ConversationGuardianView, connectGuardian
\* The action button: "Start" while neither connected nor monitoring, "Stop"
\* otherwise.
CanStartMonitoring == ~isConnected /\ ~isMonitoring

\* startMonitoring, up to `await getUserMedia`.
StartMonitoring ==
    /\ mode = "silent"
    /\ CanStartMonitoring
    /\ nSessions < MaxSessions
    /\ LET s == nSessions + 1 IN
        /\ nSessions' = s
        /\ inCtx' = [inCtx EXCEPT ![s] = "running"]
        /\ mic' = [mic EXCEPT ![s] = "requested"]
        /\ inputAudioContextRef' = s
    /\ status' = StConnectingGuardian
    /\ isMonitoring' = TRUE
    /\ transcript' = << >>
    /\ last' = "other"
    /\ UNCHANGED <<codec, video, mode, isConnected, tr, outCtx, outClock, pipeline, sessionRef,
                   outputAudioContextRef, liveVars, guardianSignal, currentInputTrans,
                   currentOutputTrans, nextCallId, obsVars>>

\* getUserMedia resolved: connectGuardian is called, whatever isMonitoringRef says.
GuardianMicGranted(s) ==
    /\ mode = "silent"
    /\ mic[s] = "requested"
    /\ mic' = [mic EXCEPT ![s] = "live"]
    /\ tr' = [tr EXCEPT ![s] = "connecting"]
    /\ currentInputTrans' = [currentInputTrans EXCEPT ![s] = << >>]
    /\ currentOutputTrans' = [currentOutputTrans EXCEPT ![s] = << >>]
    /\ frags' = << >>
    /\ last' = "other"
    /\ UNCHANGED <<codec, video, mode, status, isConnected, nSessions, inCtx, outCtx, outClock,
                   pipeline, refVars, isAiSpeaking, isMuted, isExplicitlyStopped, conversation,
                   feedback, isGeneratingFeedback, feedbackError, playVars, callVars,
                   isMonitoring, guardianSignal, transcript,
                   nextCallId, obsVars>>

\* getUserMedia rejected: the catch of startMonitoring.
GuardianMicDenied(s) ==
    /\ mode = "silent"
    /\ mic[s] = "requested"
    /\ mic' = [mic EXCEPT ![s] = "denied"]
    /\ status' = StMicError
    /\ isMonitoring' = FALSE
    /\ last' = "other"
    /\ UNCHANGED <<codec, video, mode, isConnected, nSessions, tr, inCtx, outCtx, outClock, pipeline,
                   refVars, liveVars, guardianSignal, transcript, currentInputTrans,
                   currentOutputTrans, nextCallId, obsVars>>

\* The connect promise of connectGuardian rejected: nothing handles it.
GuardianConnectRejected(s) ==
    /\ mode = "silent"
    /\ tr[s] = "connecting"
    /\ tr' = [tr EXCEPT ![s] = "rejected"]
    /\ last' = "other"
    /\ UNCHANGED <<codec, video, mode, status, isConnected, nSessions, inCtx, outCtx, outClock, mic,
                   pipeline, refVars, liveVars, guardVars, obsVars>>

\* onOpen of startMonitoring
GuardianOnOpen(s) ==
    /\ mode = "silent"
    /\ tr[s] = "connecting"
    /\ tr' = [tr EXCEPT ![s] = "open"]
    /\ IF ~isMonitoring
       THEN UNCHANGED <<isConnected, status, pipeline>>
       ELSE /\ isConnected' = TRUE
            /\ status' = StMonitoring
            /\ pipeline' = [pipeline EXCEPT ![s] = TRUE]
    /\ last' = "other"
    /\ UNCHANGED <<codec, video, mode, nSessions, inCtx, outCtx, outClock, mic, refVars, liveVars,
                   guardVars, obsVars>>

\* What one capture tick of the monitor does.
GuardianTickOutcome(s) ==
    IF ~isMonitoring THEN "stopped"
    ELSE IF tr[s] = "open" THEN "sent"
    ELSE "sendFailed"

\* scriptProcessor.onaudioprocess of startMonitoring
GuardianCaptureTick(s) ==
    /\ mode = "silent"
    /\ pipeline[s]
    /\ inCtx[s] = "running"
    /\ last' = GuardianTickOutcome(s)
    /\ sessionRef' = IF isMonitoring THEN s ELSE sessionRef
    /\ UNCHANGED <<codec, video, mode, status, isConnected, sessVars, inputAudioContextRef,
                   outputAudioContextRef, liveVars, guardVars, closeCalls, ctxCloseCalls,
                   handoffs, sched, acks, toolLog>>

\* The status the onClose callback of startMonitoring sets.
GuardianCloseStatus(monitoring) == IF monitoring THEN StDropped ELSE StDisconnected

\* onClose of startMonitoring
GuardianOnClose(s) ==
    /\ mode = "silent"
    /\ tr[s] \in {"open", "errored", "closing"}
    /\ tr' = [tr EXCEPT ![s] = "closed"]
    /\ isConnected' = FALSE
    /\ status' = GuardianCloseStatus(isMonitoring)
    /\ last' = "other"
    /\ UNCHANGED <<codec, video, mode, nSessions, inCtx, outCtx, outClock, mic, pipeline, refVars,
                   liveVars, guardVars, obsVars>>

\* onError of startMonitoring
GuardianOnError(s, cause) ==
    /\ mode = "silent"
    /\ tr[s] \in {"connecting", "open"}
    /\ tr' = [tr EXCEPT ![s] = "errored"]
    /\ IF ~isMonitoring
       THEN UNCHANGED <<status, isConnected>>
       ELSE /\ status' = GuardianErrorStatus(cause)
            /\ isConnected' = FALSE
    /\ last' = "other"
    /\ UNCHANGED <<codec, video, mode, nSessions, inCtx, outCtx, outClock, mic, pipeline, refVars,
                   liveVars, guardVars, obsVars>>

\* stopMonitoring
StopMonitoring ==
    /\ mode = "silent"
    /\ ~CanStartMonitoring
    /\ inputAudioContextRef # NoSession => ctxCloseCalls[inputAudioContextRef] < MaxStops
    /\ isMonitoring' = FALSE
    /\ tr' = CloseTransport(tr, sessionRef)
    /\ closeCalls' = Count(closeCalls, sessionRef)
    /\ sessionRef' = NoSession
    /\ inCtx' = CloseCtx(inCtx, inputAudioContextRef)
    /\ ctxCloseCalls' = Count(ctxCloseCalls, inputAudioContextRef)
    /\ isConnected' = FALSE
    /\ status' = StStopped
    /\ guardianSignal' = "null"
    /\ last' = "stop"
    /\ UNCHANGED <<codec, video, mode, nSessions, outCtx, outClock, mic, pipeline, inputAudioContextRef,
                   outputAudioContextRef, liveVars, transcript, currentInputTrans,
                   currentOutputTrans, nextCallId, handoffs, sched, acks, toolLog>>

\* ------------------------------------------------ transcript (silent monitor)
RECURSIVE TrimLeft(_)
TrimLeft(t) == IF t # << >> /\ Head(t) = " " THEN TrimLeft(Tail(t)) ELSE t

RECURSIVE TrimRight(_)
TrimRight(t) ==
    IF t # << >> /\ t[Len(t)] = " " THEN TrimRight(SubSeq(t, 1, Len(t) - 1)) ELSE t

\* String.prototype.trim
Trim(t) == TrimRight(TrimLeft(t))

\* `if (buf.trim()) { onTranscript(role, buf.trim()); buf = "" }`; onTranscript
\* appends to the transcript of the view.
FlushEmits(buf) == Trim(buf) # << >>
FlushAppend(list, role, buf) ==
    IF FlushEmits(buf) THEN Append(list, Msg(role, Trim(buf))) ELSE list

\* Variant: a flush that leaves the emitted buffer as it is.
FlushBufferKeep(buf) == buf

FlushBuffer(buf) == IF FlushEmits(buf) THEN << >> ELSE buf

\* ------------------------------------------------------------ tool calls
GuardianTool == "update_guardian_status"

\* A function call of a toolCall message: its name and the `signal` argument
\* ("missing": the arguments carry no signal).  fails: session.sendToolResponse
\* for this call fails.
Call(name, sig) == [name |-> name, sig |-> sig, fails |-> FALSE]

\* A call whose acknowledgement cannot be sent.
FailingCall(name, sig) == [name |-> name, sig |-> sig, fails |-> TRUE]

\* `if (fc.name === 'update_guardian_status')`
ToolHandled(fc) == fc.name = GuardianTool

\* The onStatusUpdate callback of startMonitoring throws when it runs without a
\* signal string (signal.signal.toUpperCase()).
CallbackThrows(fc) == isMonitoring /\ fc.sig = "missing"

\* Variant: the acknowledgement is registered before the callback runs, so a
\* callback that throws leaves it registered.
AcksBeforeCallback(sent, id) == Append(sent, id)

\* The acknowledgements registered when the callback of call id threw: the
\* `sessionPromise.then` of that call is never reached.
AcksAfterThrow(sent, id) == sent

\* An entry of toolLog: the callback of a call returned ("returned"), the
\* acknowledgement of a call was sent ("ack"), or sending it failed
\* ("ackFailed").
Event(ev, id) == [ev |-> ev, id |-> id]

\* The acknowledgements a sequence of events sent.
SentIds(events) ==
    LET sent == SelectSeq(events, LAMBDA e : e.ev = "ack")
    IN [i \in 1..Len(sent) |-> sent[i].id]

\* The "ack" events for the ids that `after` has beyond `before`.
NewAcks(before, after) ==
    [i \in 1..(Len(after) - Len(before)) |-> Event("ack", after[Len(before) + i])]

\* Variant: a failed acknowledgement is sent again.
AckTriesRetry(fc, id) ==
    IF fc.fails THEN <<Event("ackFailed", id), Event("ack", id)>> ELSE <<Event("ack", id)>>

\* sessionPromise.then(session => session.sendToolResponse(...)): one attempt; a
\* failure is caught and logged.
AckTries(fc, id) == <<Event(IF fc.fails THEN "ackFailed" ELSE "ack", id)>>

\* Tool handling of one message, call by call from index i: st.sig is the signal on
\* display, st.list the transcript, st.acks the acknowledgements sent, st.rets
\* the calls whose callback returned, st.tries the attempts to acknowledge.  A
\* handled call runs the callback and, when it returned, acknowledges the call
\* id; a callback that throws ends the handler.
RECURSIVE HandleCalls(_, _, _)
HandleCalls(calls, i, st) ==
    IF i > Len(calls) THEN st
    ELSE LET fc == calls[i]
             id == nextCallId + i - 1
         IN IF ~ToolHandled(fc) THEN HandleCalls(calls, i + 1, st)
            ELSE IF CallbackThrows(fc)
                 THEN [st EXCEPT !.sig = fc.sig, !.acks = AcksAfterThrow(st.acks, id),
                                 !.tries = @ \o NewAcks(st.acks, AcksAfterThrow(st.acks, id))]
            ELSE HandleCalls(calls, i + 1,
                     [sig |-> IF isMonitoring THEN fc.sig ELSE st.sig,
                      list |-> IF isMonitoring
                               THEN Append(st.list, Msg("model", <<fc.sig>>))
                               ELSE st.list,
                      acks |-> st.acks \o SentIds(AckTries(fc, id)),
                      rets |-> Append(st.rets, id),
                      tries |-> st.tries \o AckTries(fc, id)])

\* An inbound message of the monitor session.
GuardianMsg(inT, outT, turnComplete, calls) ==
    [inT |-> inT, outT |-> outT, turnComplete |-> turnComplete, calls |-> calls]

\* onmessage of connectGuardian, with buffers of at most maxText characters
GuardianReceive(s, m, maxText) ==
    /\ mode = "silent"
    /\ tr[s] = "open"
    /\ nextCallId + Len(m.calls) - 1 <= MaxCalls
    /\ LET inBuf == currentInputTrans[s] \o m.inT
           outBuf == currentOutputTrans[s] \o m.outT
           flushed == IF m.turnComplete
                      THEN FlushAppend(FlushAppend(transcript, "user", inBuf),
                                       "model", outBuf)
                      ELSE transcript
           st == HandleCalls(m.calls, 1,
                     [sig |-> guardianSignal, list |-> flushed, acks |-> acks,
                      rets |-> << >>, tries |-> << >>])
       IN /\ Len(inBuf) <= maxText
          /\ Len(outBuf) <= maxText
          /\ Len(st.list) <= MaxConv
          /\ currentInputTrans' = [currentInputTrans EXCEPT ![s] =
                 IF m.turnComplete THEN FlushBuffer(inBuf) ELSE inBuf]
          /\ currentOutputTrans' = [currentOutputTrans EXCEPT ![s] =
                 IF m.turnComplete THEN FlushBuffer(outBuf) ELSE outBuf]
          /\ transcript' = st.list
          /\ guardianSignal' = st.sig
          /\ acks' = st.acks
          \* the callbacks run inside the handler, the sends in `then` callbacks
          \* after it
          /\ toolLog' = toolLog \o [i \in 1..Len(st.rets) |-> Event("returned", st.rets[i])]
                                \o st.tries
    /\ frags' = IF m.turnComplete THEN << >>
                ELSE frags \o Fragments("user", m.inT) \o Fragments("model", m.outT)
    /\ nextCallId' = nextCallId + Len(m.calls)
    /\ last' = "other"
    /\ UNCHANGED <<codec, video, mode, status, isConnected, sessVars, refVars, isAiSpeaking, isMuted,
                   isExplicitlyStopped, conversation, feedback, isGeneratingFeedback,
                   feedbackError, playVars, callVars, isMonitoring,
                   closeCalls, ctxCloseCalls, handoffs, sched>>

\* onmessage of connectGuardian
GuardianOnMessage(s, m) == GuardianReceive(s, m, MaxText)

\* ------------------------------------------------------- specifications
TextMsgs == {LiveMsg(<<"a">>, << >>, 0, FALSE), LiveMsg(<< >>, <<"a">>, 0, FALSE)}

\* Causes of the transport errors the specifications raise.
LifeCauses == {"none", "403"}

\* Every handler of the monitor view but startMonitoring and onmessage.
GuardianHandlers ==
    \/ StopMonitoring
    \/ \E s \in Sessions : GuardianMicGranted(s)
    \/ \E s \in Sessions : GuardianMicDenied(s)
    \/ \E s \in Sessions : GuardianOnOpen(s)
    \/ \E s \in Sessions : GuardianConnectRejected(s)
    \/ \E s \in Sessions : GuardianOnClose(s)
    \/ \E s \in Sessions, c \in LifeCauses : GuardianOnError(s, c)
    \/ \E s \in Sessions : GuardianCaptureTick(s)

FirstStart == nSessions = 0 /\ StartMonitoring

\* Inbound messages of the monitor: user text, agent text, the turn-complete
\* marker, and tool calls (handled or not, with or without a signal).
GuardianMsgs ==
    {GuardianMsg(<<"a">>, << >>, FALSE, << >>), GuardianMsg(<< >>, <<" ">>, FALSE, << >>),
     GuardianMsg(<< >>, << >>, TRUE, << >>)}
        \cup {GuardianMsg(<< >>, << >>, FALSE, <<Call(n, g)>>) :
                 n \in {GuardianTool, "other"}, g \in {"caution", "missing"}}
        \cup {GuardianMsg(<< >>, << >>, FALSE, <<Call(GuardianTool, g), Call(GuardianTool, "caution")>>) :
                 g \in {"caution", "missing"}}

\* The handlers of the conversational view that need no inbound message.
LiveHandlers ==
    \/ HandleDisconnect
    \/ DisconnectCloseOutput
    \/ DisconnectFinish
    \/ \E s \in Sessions : MicGranted(s)
    \/ \E s \in Sessions : MicDenied(s)
    \/ \E s \in Sessions : OnOpen(s)
    \/ \E s \in Sessions : ConnectRejected(s)
    \/ \E s \in Sessions : OnClose(s)
    \/ \E s \in Sessions, c \in LifeCauses : OnError(s, c)
    \/ \E s \in Sessions : CaptureTick(s)

\* The first session after the view is mounted.
FirstConnect == nSessions = 0 /\ Connect

\* Spec: the life of the first session of either view.  Inbound messages of the
\* conversational session: transcript text of either role, one audio fragment and
\* the interrupted marker; the output clock stands still.
LifeMsgs == TextMsgs \cup {LiveMsg(<< >>, << >>, 1, FALSE), LiveMsg(<< >>, << >>, 0, TRUE)}

Next ==
    \/ FirstConnect
    \/ LiveHandlers
    \/ FeedbackResolved
    \/ FeedbackRejected
    \/ ResetSession
    \/ OnMessageResume
    \/ \E s \in Sessions : StoppedSourceEnded(s)
    \/ \E s \in Sessions, m \in LifeMsgs : OnMessage(s, m)
    \/ FirstStart
    \/ GuardianHandlers
    \/ \E s \in Sessions, m \in GuardianMsgs : GuardianOnMessage(s, m)

Spec == Init /\ [][Next]_vars

\* SpecPlay: playback and capture of the first conversational session, from
\* connect to the close of the transport, with the clock running and audio of every
\* duration, without transcript text.
PlayMsgs == LiveMsgs \ TextMsgs

NextPlay ==
    \/ FirstConnect
    \/ \E s \in Sessions : MicGranted(s)
    \/ \E s \in Sessions : OnOpen(s)
    \/ \E s \in Sessions : OnClose(s)
    \/ \E s \in Sessions : CaptureTick(s)
    \/ ToggleMute
    \/ OnMessageResume
    \/ \E s \in Sessions : StoppedSourceEnded(s)
    \/ \E s \in Sessions, m \in PlayMsgs : OnMessage(s, m)
    \/ \E s \in Sessions : ClockAdvance(s)
    \/ \E src \in sources : SourceEnded(src)

SpecPlay == Init /\ [][NextPlay]_vars

\* SpecReconnect: connect attempts one after the other in either view, without
\* inbound messages.
NextReconnect ==
    \/ Connect
    \/ LiveHandlers
    \/ StartMonitoring
    \/ GuardianHandlers

SpecReconnect == Init /\ [][NextReconnect]_vars

\* SpecAssemble: the transcript of the conversational view fed with fragments of
\* either role, nothing else happening.
NextAssemble == \E role \in {"user", "model"}, text \in FragTexts : Transcription(role, text)

SpecAssemble == Init /\ [][NextAssemble]_vars

\* SpecFlush: the transcript of the monitor fed with text of either role, with and
\* without surrounding blanks, and with turn-complete markers; no tool calls.
FlushMsgs ==
    {GuardianMsg(<<"a">>, << >>, FALSE, << >>), GuardianMsg(<<" ">>, << >>, FALSE, << >>),
     GuardianMsg(<< >>, <<"a">>, FALSE, << >>), GuardianMsg(<< >>, << >>, TRUE, << >>)}

NextFlush ==
    \/ FirstStart
    \/ \E s \in Sessions : GuardianMicGranted(s)
    \/ \E s \in Sessions : GuardianOnOpen(s)
    \/ \E s \in Sessions, m \in FlushMsgs : GuardianReceive(s, m, MaxBuf)

SpecFlush == Init /\ [][NextFlush]_vars

\* SpecRestart: conversational sessions one after the other, each receiving
\* audio and ended by the user or by the transport; the output clocks stand
\* still.
RestartMsgs == {LiveMsg(<< >>, << >>, 1, FALSE)}

NextRestart ==
    \/ Connect
    \/ \E s \in Sessions : MicGranted(s)
    \/ \E s \in Sessions : OnOpen(s)
    \/ \E s \in Sessions : OnClose(s)
    \/ \E s \in Sessions : CaptureTick(s)
    \/ HandleDisconnect
    \/ DisconnectCloseOutput
    \/ DisconnectFinish
    \/ OnMessageResume
    \/ \E s \in Sessions, m \in RestartMsgs : OnMessage(s, m)

SpecRestart == Init /\ [][NextRestart]_vars

\* SpecFail: the first session of either view with sends that fail: capture
\* ticks after a transport error, and tool calls whose acknowledgement fails.
FailMsgs ==
    {GuardianMsg(<<"a">>, << >>, FALSE, << >>), GuardianMsg(<< >>, << >>, TRUE, << >>),
     GuardianMsg(<< >>, << >>, FALSE, <<Call(GuardianTool, "caution")>>),
     GuardianMsg(<< >>, << >>, FALSE, <<FailingCall(GuardianTool, "caution")>>),
     GuardianMsg(<< >>, << >>, FALSE,
                 <<FailingCall(GuardianTool, "caution"), Call(GuardianTool, "caution")>>)}

NextFail ==
    \/ FirstConnect
    \/ \E s \in Sessions : MicGranted(s)
    \/ \E s \in Sessions : OnOpen(s)
    \/ \E s \in Sessions, c \in LifeCauses : OnError(s, c)
    \/ \E s \in Sessions : CaptureTick(s)
    \/ ToggleMute
    \/ \E s \in Sessions, m \in TextMsgs : OnMessage(s, m)
    \/ FirstStart
    \/ \E s \in Sessions : GuardianMicGranted(s)
    \/ \E s \in Sessions : GuardianOnOpen(s)
    \/ \E s \in Sessions, c \in LifeCauses : GuardianOnError(s, c)
    \/ \E s \in Sessions : GuardianCaptureTick(s)
    \/ \E s \in Sessions, m \in FailMsgs : GuardianOnMessage(s, m)

SpecFail == Init /\ [][NextFail]_vars

\* ------------------------------------------------------------ PCM codec
\* A sample value is the rational sample / SampleScale; the grid is dyadic, as
\* the values of a Float32Array are.
SampleScale == 65536

Abs(x) == IF x < 0 THEN -x ELSE x
Min(a, b) == IF a < b THEN a ELSE b

\* The value stored by `int16[i] = x` for x = a * f / SampleScale, a >= 0 and
\* f <= 0x8000: the fraction is discarded.  (a * 0x8000 is computed as
\* a * 0x7FFF + a to keep the products below 2^31.)
Scaled(a, f) ==
    LET base == Min(f, 32767)
        p == a * base
        rest == a * (f - base)
    IN (p \div SampleScale) + ((p % SampleScale) + rest) \div SampleScale

\* An Int16Array element keeps the low 16 bits, read as a signed integer.
ToInt16(x) == LET m == x % 65536 IN IF m >= 32768 THEN m - 65536 ELSE m

\* new Uint8Array(int16.buffer): the two bytes of an element, low byte first;
\* btoa / atob carry the bytes unchanged.
ToBytes(v) == LET m == v % 65536 IN <<m % 256, m \div 256>>

\* new Int16Array(data.buffer): the element read back from its two bytes.
FromBytes(b) == ToInt16(b[1] + 256 * b[2])

\* A variant of createBlob that scales non-negative samples by 0x7FFE.
createBlobLowScale(n) ==
    LET s == Max(-SampleScale, Min(SampleScale, n))
    IN ToBytes(ToInt16(IF s < 0 THEN -Scaled(-s, 32768) ELSE Scaled(s, 32766)))

\* createBlob, for one sample: clip to [-1, 1], scale by 0x8000 (negative) or
\* 0x7FFF, store in an Int16Array, serialise.
createBlob(n) ==
    LET s == Max(-SampleScale, Min(SampleScale, n))
    IN ToBytes(ToInt16(IF s < 0 THEN -Scaled(-s, 32768) ELSE Scaled(s, 32767)))

\* decodeAudioData, for one sample: dataInt16[i] / 32768.0
decodeAudioData(b) == [num |-> FromBytes(b), den |-> 32768]

\* The samples offered to the encoder: the grid over [-1, 1] and one value
\* beyond each end.
Samples == (-SampleScale - 1) .. (SampleScale + 1)

InitCodec ==
    /\ InitProgram
    /\ mode = "conversational"
    /\ codec \in {[NoCodec EXCEPT !.stage = "input", !.sample = n] : n \in Samples}
    /\ video = NoVideo

Encode ==
    /\ codec.stage = "input"
    /\ codec' = [codec EXCEPT !.stage = "encoded", !.bytes = createBlob(codec.sample)]
    /\ UNCHANGED <<programVars, video>>

Decode ==
    /\ codec.stage = "encoded"
    /\ codec' = [codec EXCEPT !.stage = "decoded", !.out = decodeAudioData(codec.bytes)]
    /\ UNCHANGED <<programVars, video>>

NextCodec == Encode \/ Decode

SpecCodec == InitCodec /\ [][NextCodec]_vars

\* ------------------------------------------------- generateSocialVideo
\* `script.slice(0, 30)`
SegmentCap == 30

\* `const maxAttempts = 10`
maxAttempts == 10

\* The longest script offered.
MaxScript == 2

\* The errors generateVideos is made to throw: a 429 code, a quota message, and
\* an error that is neither.
VideoErrors ==
    {[code |-> 429, msg |-> "failed"], [code |-> 500, msg |-> "quota"],
     [code |-> 500, msg |-> "failed"]}

\* isRateLimit of the catch block
IsRateLimit(e) == e.code = 429 \/ e.msg \in {"429", "RESOURCE_EXHAUSTED", "quota"}

\* Variant: a rate-limit failure is retried whatever the number of attempts.
RetryUnbounded(e, attempts) == IsRateLimit(e)

\* `if (isRateLimit && attempts < maxAttempts)`: wait and try again.
Retry(e, attempts) == IsRateLimit(e) /\ attempts < maxAttempts

\* Leaving the segment loop on a failure: with a video already made the loop is
\* left to return it, otherwise the function throws.
GiveUp(v) == [v EXCEPT !.pc = IF v.current THEN "returned" ELSE "thrown"]

InitVideo ==
    /\ InitProgram
    /\ mode = "conversational"
    /\ codec = NoCodec
    /\ video \in {[NoVideo EXCEPT !.pc = "segment", !.n = Min(len, SegmentCap), !.i = 1] :
                    len \in 0..MaxScript}

\* The head of the `for` loop: the next segment, or the end of the script.
NextSegment ==
    /\ video.pc = "segment"
    /\ video' = IF video.i > video.n THEN GiveUp(video)
                ELSE [video EXCEPT !.pc = "retry", !.attempts = 0, !.requests = 0,
                                   !.err = "none"]
    /\ UNCHANGED <<programVars, codec>>

\* The head of the retry loop and the call of generateVideos.
Request ==
    /\ video.pc = "retry"
    /\ video.attempts < maxAttempts
    /\ video' = [video EXCEPT !.pc = "request", !.requests = @ + 1]
    /\ UNCHANGED <<programVars, codec>>

\* generateVideos resolved.
RequestOk ==
    /\ video.pc = "request"
    /\ video' = [video EXCEPT !.pc = "polling"]
    /\ UNCHANGED <<programVars, codec>>

\* generateVideos rejected: the catch block of the retry loop.
RequestFailed(e) ==
    /\ video.pc = "request"
    /\ LET failed == [video EXCEPT !.attempts = @ + 1,
                                   !.err = IF IsRateLimit(e) THEN "rateLimit" ELSE "other"]
       IN video' = IF Retry(e, failed.attempts) THEN [failed EXCEPT !.pc = "backoff"]
                   ELSE GiveUp(failed)
    /\ UNCHANGED <<programVars, codec>>

\* `await wait(delay)` is over.
BackoffElapsed ==
    /\ video.pc = "backoff"
    /\ video' = [video EXCEPT !.pc = "retry"]
    /\ UNCHANGED <<programVars, codec>>

\* The polling of the operation is over: it gave a video, no video, or failed.
Polled(outcome) ==
    /\ video.pc = "polling"
    /\ video' = IF outcome = "video"
                THEN [video EXCEPT !.pc = "segment", !.current = TRUE, !.i = @ + 1]
                ELSE GiveUp(video)
    /\ UNCHANGED <<programVars, codec>>

NextVideo ==
    \/ NextSegment
    \/ Request
    \/ RequestOk
    \/ \E e \in VideoErrors : RequestFailed(e)
    \/ BackoffElapsed
    \/ \E outcome \in {"video", "noVideo", "error"} : Polled(outcome)

\* Every awaited promise settles: a request resolves or rejects, a timer fires.
SpecVideo == InitVideo /\ [][NextVideo]_vars /\ WF_vars(NextVideo)

\* SpecDecode: the first conversational session receiving audio, well-formed and
\* malformed, with and without the interrupted marker.
DecodeMsgs ==
    {LiveMsg(<< >>, << >>, 1, FALSE), LiveMsg(<< >>, << >>, 1, TRUE)}
        \cup {BadAudioMsg(k, i) : k \in {"odd", "invalid"}, i \in BOOLEAN}

NextDecode ==
    \/ FirstConnect
    \/ \E s \in Sessions : MicGranted(s)
    \/ \E s \in Sessions : OnOpen(s)
    \/ OnMessageResume
    \/ \E s \in Sessions, m \in DecodeMsgs : OnMessage(s, m)
    \/ \E s \in Sessions : ClockAdvance(s)
    \/ \E src \in sources : SourceEnded(src)

SpecDecode == Init /\ [][NextDecode]_vars

\* ============================================================== properties
\* A close or error callback of a transport fires.
DropStep == \E s \in Sessions : tr'[s] # tr[s] /\ tr'[s] \in {"closed", "errored"}

\* No stop() came before: the conversational view has not set its explicit-stop
\* flag, the monitor view is still monitoring.
NotStopped == IF mode = "conversational" THEN ~isExplicitlyStopped ELSE isMonitoring

\* A stop() call starts: handleDisconnect runs up to its first await, or
\* stopMonitoring runs.
StopCallStep == discIn' > discIn \/ (mode = "silent" /\ last # "stop" /\ last' = "stop")

\* What a close or error callback leaves alone besides the transcript, the
\* connection flag, the status text and the agent-is-speaking flag.
DropFrame ==
    UNCHANGED <<isMuted, isExplicitlyStopped, feedback, isGeneratingFeedback,
                feedbackError, isMonitoring, guardianSignal, refVars, playVars,
                callVars, nSessions, inCtx, outCtx, mic, pipeline>>

DisconnectBranchStep == discOut' < discOut

C3_StopIdempotent ==
    [][/\ last = "stop" /\ StopCallStep =>
              closeCalls' = closeCalls /\ ctxCloseCalls' = ctxCloseCalls
       /\ last' = "stop" => handoffs' <= 1]_vars

\* A session has reached a terminal state: its transport closed, failed or was
\* refused, its microphone request was refused, or stop() ran to its end on it.
Terminal(s) ==
    \/ tr[s] \in {"closed", "errored", "rejected"}
    \/ mic[s] = "denied"
    \/ /\ s = inputAudioContextRef
       /\ IF mode = "conversational"
          THEN isExplicitlyStopped /\ discIn = 0 /\ discOut = 0
          ELSE ~isMonitoring

\* C4 as stated: a session in a terminal state holds no live microphone stream and
\* no running audio context.
C4_ReleasedWhenTerminal ==
    \A s \in Sessions :
        Terminal(s) => mic[s] # "live" /\ inCtx[s] # "running" /\ outCtx[s] # "running"

\* C5 as stated: a stop() call made while the transport of the current session is
\* connecting or open invokes close on that transport.
C5_StopClosesTransport ==
    [][/\ StopCallStep
       /\ inputAudioContextRef # NoSession
       /\ tr[inputAudioContextRef] \in {"connecting", "open"}
       => closeCalls'[inputAudioContextRef] = closeCalls[inputAudioContextRef] + 1]_vars

\* The sessions that hold a microphone stream or an audio context.
Holders ==
    {s \in Sessions : mic[s] = "live" \/ inCtx[s] = "running" \/ outCtx[s] = "running"}

\* C6 as stated: the microphone stream and the audio contexts are held by at most
\* one session at a time; a connect attempt made while an earlier session still
\* holds any of them acquires nothing.
C6_ExclusiveOwnership == Cardinality(Holders) <= 1

\* The outcomes of a capture tick of the conversational view.
LiveTickOutcomes == {"muted", "gated", "sent", "sendFailed"}

\* A capture tick of the conversational view ran.
LiveTickStep == mode = "conversational" /\ last' # last /\ last' \in LiveTickOutcomes

\* C7 as stated: a capture tick transmits no frame while the mute flag is set, and
\* transmits a frame as soon as the flag is clear.
C7_MuteOnly ==
    [][LiveTickStep =>
          IF isMuted THEN last' \notin {"sent", "sendFailed"}
          ELSE last' \in {"sent", "sendFailed"}]_vars

\* C7 amended: a capture tick transmits no frame while the mute flag is set; with
\* the flag clear it transmits a frame unless the playback cursor is ahead of the
\* output clock (the agent is still speaking), in which case the frame is dropped.
C7_MuteThenHalfDuplex ==
    [][LiveTickStep =>
          IF isMuted THEN last' = "muted"
          ELSE IF outputAudioContextRef # NoSession
                    /\ nextStartTime > outClock[outputAudioContextRef]
               THEN last' = "gated"
               ELSE last' \in {"sent", "sendFailed"}]_vars

\* A capture tick of an open session dropped its frame because of the mute flag
\* alone: the cursor was not ahead of the clock.
C7_Witness ==
    /\ mode = "conversational"
    /\ last = "muted"
    /\ isMuted
    /\ tr[1] = "open"
    /\ nextStartTime <= outClock[1]

\* The call ids received so far.
ReceivedIds == 1..(nextCallId - 1)

\* C8 as stated: every tool call id received is acknowledged exactly once.
C8_AckedExactlyOnce ==
    \A id \in ReceivedIds : Cardinality({i \in DOMAIN acks : acks[i] = id}) = 1

\* C9: of two fragments scheduled one after the other with no interruption in
\* between, the second starts no earlier than the first ends.
C9_NoOverlap == sched.prevEnd >= 0 => sched.start >= sched.prevEnd

\* Two fragments were scheduled back to back.
C9_Witness == sched.prevEnd >= 1 /\ sched.start = sched.prevEnd /\ sched.end > sched.start

\* C10 as stated: of two fragments scheduled one after the other with no
\* interruption in between, the second starts at most one scheduling unit after the
\* first ends.
C10_NoGap == sched.prevEnd >= 0 => sched.start <= sched.prevEnd + 1

\* C10 amended: of two fragments scheduled one after the other with no
\* interruption in between, the second starts at the end of the first, or at the
\* device time read when it is scheduled if that is later: a gap opens only when
\* the fragment is delivered after the first has played out.
C10_NoGapUnlessLate ==
    sched.prevEnd >= 0 =>
        sched.start = (IF sched.now > sched.prevEnd THEN sched.now ELSE sched.prevEnd)

\* A fragment was delivered more than one unit after the previous one ended.
C10_Witness ==
    /\ sched.prevEnd >= 0
    /\ sched.now > sched.prevEnd + 1
    /\ sched.start = sched.now

\* onMessage schedules the buffer it decoded: source.start(nextStartTimeRef.current)
\* runs with the cursor and the clock of the state the step leaves.
ScheduleStep == pending # NoPending /\ pending' = NoPending

\* C11 as stated: every buffer is scheduled with a start time that is no earlier
\* than the output device clock at the moment it is scheduled.
C11_StartNotBeforeClock ==
    [][ScheduleStep => nextStartTime >= outClock[pending.ctx]]_vars

\* C12: playback order equals arrival order.  The buffer scheduled last starts
\* no earlier than any buffer of the session received before it that is still
\* queued or has played to its end (a buffer stopped by an interruption is
\* discarded).
C12_PlaybackFifo ==
    sched.start >= 0 =>
        /\ sched.played <= sched.start
        /\ \A src \in sources : src.start <= sched.start

\* A buffer was scheduled first after an interruption, after an earlier buffer had
\* played to its end.
C12_Witness ==
    /\ sched.played >= 0
    /\ sched.prevEnd = -1
    /\ sched.start > sched.played
    /\ sources # {}

\* The handling of a message that carries the interrupted marker comes to its end:
\* at once when the message has no audio to decode, after the decoding otherwise.
InterruptHandled ==
    \/ pending # NoPending /\ pending.intr /\ pending' = NoPending
    \/ \E s \in Sessions, m \in LiveMsgs :
          /\ m.intr
          /\ m.audio = 0 \/ outputAudioContextRef = NoSession
          /\ OnMessage(s, m)

RECURSIVE RunText(_, _)
RunText(fs, r) ==
    IF fs = << >> \/ Head(fs).role # r THEN << >>
    ELSE Head(fs).text \o RunText(Tail(fs), r)

\* fs without the fragments of role r at its head.
RECURSIVE DropRun(_, _)
DropRun(fs, r) == IF fs = << >> \/ Head(fs).role # r THEN fs ELSE DropRun(Tail(fs), r)

\* One message per maximal run of consecutive fragments of the same role, in
\* arrival order, holding the concatenation of the texts of the run.
RECURSIVE Runs(_)
Runs(fs) ==
    IF fs = << >> THEN << >>
    ELSE <<Msg(Head(fs).role, RunText(fs, Head(fs).role))>>
             \o Runs(DropRun(fs, Head(fs).role))

\* C14: the conversation holds one message per maximal run of consecutive
\* fragments of the same role, in arrival order, whose text is the concatenation
\* of the fragments of that run.
C14_RoleSwitchFlush == conversation = Runs(frags)

\* The fragments (user,"a"), (user,"ab"), (model,"a") gave the two messages
\* user:"aab" and model:"a".
C14_Witness ==
    /\ frags = <<Msg("user", <<"a">>), Msg("user", <<"a", "b">>), Msg("model", <<"a">>)>>
    /\ conversation = <<Msg("user", <<"a", "a", "b">>), Msg("model", <<"a">>)>>

\* The concatenated text of the fragments of role r in fs.
RECURSIVE RoleText(_, _)
RoleText(fs, r) ==
    IF fs = << >> THEN << >>
    ELSE (IF Head(fs).role = r THEN Head(fs).text ELSE << >>) \o RoleText(Tail(fs), r)

\* The message a flush emits for a text: none when the text is blank.
Emission(r, text) == IF Trim(text) = << >> THEN << >> ELSE <<Msg(r, Trim(text))>>

C16_DecodeNeverRaises ==
    [][\A s \in Sessions, m \in DecodeMsgs :
          OnMessage(s, m) /\ outputAudioContextRef # NoSession => pending' # NoPending]_vars

\* The difference sample / SampleScale - out.num / 32768 in units of
\* 1 / (32768 * SampleScale); one quantization step is SampleScale units.
\* (n * 32768 - num * SampleScale, with the products kept below 2^31.)
RoundTripError ==
    2 * (codec.sample * 16384 - (codec.out.num \div 2) * SampleScale)
        - (codec.out.num % 2) * SampleScale

InRange == codec.stage = "decoded" /\ codec.out.den = 32768 /\ Abs(codec.sample) <= SampleScale

\* C17 as stated: for every sample in [-1, 1] the decoded value of its encoded
\* form is within one quantization step, 1/32768, of the sample.
C17_RoundTripOneStep == InRange => Abs(RoundTripError) <= SampleScale

\* C17 amended: the decoded value is never above the sample and less than two
\* quantization steps below it; for a negative sample it is less than one
\* step away.
C17_RoundTripTwoSteps ==
    InRange => /\ Abs(RoundTripError) < 2 * SampleScale
               /\ codec.sample >= 0 => RoundTripError >= 0
               /\ codec.sample < 0 => Abs(RoundTripError) < SampleScale

\* A sample just below 1 came back more than one step lower.
C17_Witness ==
    /\ InRange
    /\ codec.sample = SampleScale - 1
    /\ RoundTripError > SampleScale

\* The start control of the mounted view can be used.
StartEnabled == IF mode = "conversational" THEN CanConnect ELSE CanStartMonitoring

MicFailureStep == \E s \in Sessions : MicDenied(s) \/ GuardianMicDenied(s)

\* C18 as stated: when getUserMedia fails during start, no transport connect is
\* ever initiated for that attempt, and the failure leaves the view in a state
\* in which start can be invoked again.  (The first conjunct holds; the second
\* fails in the silent view when an earlier attempt, stopped while its own
\* microphone request was pending, has opened its transport meanwhile.)
C18_MicFailureAborts ==
    /\ [](\A s \in Sessions : mic[s] = "denied" => tr[s] = "none")
    /\ [][MicFailureStep => StartEnabled']_vars

\* The transport reports an error to a session the user has not stopped.
ErrorReported(s) ==
    \E cause \in ErrCauses : OnError(s, cause) \/ (isMonitoring /\ GuardianOnError(s, cause))

\* The close callback of a session whose error is on display.
CloseAfterError(s) ==
    /\ tr[s] = "errored"
    /\ StatusIncludesError(status)
    /\ OnClose(s) \/ GuardianOnClose(s)

\* C19 as stated: a transport error puts its cause in the status text, and the
\* close callback that follows the error does not replace that status with one
\* lacking the cause.
C19_ErrorCauseKept ==
    [][\A s \in Sessions :
          /\ ErrorReported(s) => StatusIncludesError(status')
          /\ CloseAfterError(s) => StatusIncludesError(status')]_vars

\* C20: the acknowledgement of a tool call is sent only after the application
\* callback for that call was invoked and has returned.
C20_AckAfterCallback ==
    \A j \in DOMAIN toolLog :
        toolLog[j].ev = "ack" =>
            \E i \in 1..(j - 1) : toolLog[i] = Event("returned", toolLog[j].id)

\* One message carried two calls: both callbacks returned, then both
\* acknowledgements were sent.
C20_Witness ==
    /\ isMonitoring
    /\ toolLog = <<Event("returned", 1), Event("returned", 2), Event("ack", 1), Event("ack", 2)>>
    /\ transcript # << >>

\* A capture tick whose send failed.
FrameSendFailed ==
    /\ last' = "sendFailed"
    /\ \E s \in Sessions : CaptureTick(s) \/ GuardianCaptureTick(s)

\* What a session is to its user: connection, mute flag, scheduler, transcripts,
\* signal, and the capture pipeline that produces the next tick.
sessionState ==
    <<tr, isConnected, status, isMuted, isMonitoring, isExplicitlyStopped, nextStartTime,
      sources, conversation, transcript, guardianSignal, pipeline, inCtx, outCtx, mic>>

\* The calls of a message with every acknowledgement succeeding.
Unfailing(calls) == [i \in DOMAIN calls |-> [calls[i] EXCEPT !.fails = FALSE]]

Attempts(id, log) == Cardinality({i \in DOMAIN log : log[i].ev # "returned" /\ log[i].id = id})

\* C21: a failed frame send leaves the session state as it was, with the capture
\* pipeline still producing ticks; a failed acknowledgement is attempted once,
\* and the message that carried the call changes the session exactly as it
\* would with the acknowledgement succeeding.
C21_SendFailureNotFatal ==
    [][/\ FrameSendFailed => UNCHANGED <<sessionState, acks, toolLog, closeCalls>>
       /\ \A s \in Sessions, m \in FailMsgs :
             (\E i \in DOMAIN m.calls : m.calls[i].fails) /\ GuardianOnMessage(s, m) =>
                 LET st == HandleCalls(Unfailing(m.calls), 1,
                               [sig |-> guardianSignal, list |-> transcript, acks |-> acks,
                                rets |-> << >>, tries |-> << >>])
                 IN /\ transcript' = st.list
                    /\ guardianSignal' = st.sig
                    /\ UNCHANGED <<tr, isConnected, status, isMonitoring, pipeline, inCtx>>
                    /\ \A id \in ReceivedIds' : Attempts(id, toolLog') <= 1
                    /\ \A i \in DOMAIN m.calls :
                          ~m.calls[i].fails => Attempts(nextCallId + i - 1, toolLog') = 1]_vars

\* In the monitor an acknowledgement failed, the next call of the same message
\* was acknowledged, and a later frame send failed after a transport error.
C21_Witness ==
    /\ mode = "silent"
    /\ isMonitoring
    /\ toolLog = <<Event("returned", 1), Event("returned", 2),
                   Event("ackFailed", 1), Event("ack", 2)>>
    /\ tr[1] = "errored"
    /\ last = "sendFailed"

\* C22: on a capture tick of an open, unmuted conversational session a frame is
\* transmitted exactly when the cursor nextStartTime is not greater than the
\* time of the session's output device.
C22_HalfDuplexGate ==
    [][\A s \in Sessions :
          CaptureTick(s) /\ tr[s] = "open" /\ ~isMuted =>
              (last' = "sent" <=> nextStartTime <= outClock[s])]_vars

\* A frame was transmitted with the cursor exactly at the device time, after
\* audio had been scheduled and played.
C22_Witness ==
    /\ last = "sent"
    /\ tr[1] = "open"
    /\ ~isMuted
    /\ nextStartTime > 0
    /\ nextStartTime = outClock[1]

\* A handler other than the suspended onMessage runs.
OtherHandlerStep ==
    \/ \E s \in Sessions : CaptureTick(s)
    \/ \E s \in Sessions, m \in LiveMsgs : OnMessage(s, m)
    \/ \E src \in sources : SourceEnded(src)
    \/ \E c \in Sessions : StoppedSourceEnded(c)
    \/ ToggleMute
    \/ \E s \in Sessions : OnClose(s)

C24_SendOnlyWhileOpen ==
    [][\A s \in Sessions :
          (CaptureTick(s) \/ GuardianCaptureTick(s)) /\ last' \in {"sent", "sendFailed"} =>
              tr[s] = "open"]_vars

\* A callback of session s runs: open, close, error, or an inbound message.
CallbackOf(s) ==
    \/ OnOpen(s) \/ OnClose(s) \/ GuardianOnOpen(s) \/ GuardianOnClose(s)
    \/ \E c \in ErrCauses : OnError(s, c) \/ GuardianOnError(s, c)
    \/ \E m \in TextMsgs : OnMessage(s, m)
    \/ \E m \in GuardianMsgs : GuardianOnMessage(s, m)

\* C25 as stated: once start has been invoked again, a callback of an earlier
\* session leaves the connection flag, the status, the transcripts and the
\* displayed signal of the new session unchanged.
C25_StaleCallbacksIgnored ==
    [][\A s \in Sessions :
          s < nSessions /\ CallbackOf(s) =>
              UNCHANGED <<isConnected, status, conversation, transcript, guardianSignal>>]_vars

\* C26 as stated: when a conversational session opens, the cursor is zero and
\* the active set is empty, whatever earlier sessions left behind.
C26_FreshScheduler ==
    [][\A s \in Sessions : OnOpen(s) => nextStartTime' = 0 /\ sources' = {}]_vars

\* The interrupted branch ran in this step.
InterruptionStep == sched.start >= 0 /\ sched' = [NoSched EXCEPT !.played = sched.played]

\* C27 as stated: while the active set is non-empty the speaking flag is true,
\* and the flag turns false only on an interruption or once the set is empty and
\* the device clock has reached the cursor.
C27_SpeakingWhilePlaying ==
    /\ [](sources # {} => isAiSpeaking)
    /\ [][isAiSpeaking /\ ~isAiSpeaking' =>
             \/ InterruptionStep
             \/ /\ sources' = {}
                /\ outputAudioContextRef # NoSession
                /\ outClock[outputAudioContextRef] >= nextStartTime]_vars

\* C28 as stated, in its safety form: text received by the monitor is emitted at
\* the latest when its session closes, so a closed session holds no non-blank
\* text that was never emitted (nothing can emit it later: onmessage does not
\* run on a closed session).
C28_NoTextLost ==
    \A s \in Sessions :
        tr[s] = "closed" =>
            Trim(currentInputTrans[s]) = << >> /\ Trim(currentOutputTrans[s]) = << >>

\* The monitor was stopped by the user and not started again.
MonitorStopped ==
    /\ mode = "silent"
    /\ ~isMonitoring
    /\ status \in {StStopped, StDisconnected}

\* C29 as stated: from an explicit stop to the next start no callback changes the
\* displayed signal or the transcript list, and the status changes only to the
\* one the session's own close sets.
C29_StoppedMonitorQuiet ==
    [][MonitorStopped /\ (\E s \in Sessions : CallbackOf(s)) =>
          /\ guardianSignal' = guardianSignal
          /\ transcript' = transcript
          /\ status' \in {status, StDisconnected}]_vars

\* The run of generateSocialVideo is over.
VideoDone == video.pc \in {"returned", "thrown"}

====
